---- MODULE Spec2Model ----
(***************************************************************************)
(* Model of the Lighthouse treemap viewer                                  *)
(* (lighthouse-treemap/app/src/main.js): the aggregation of the root node  *)
(* containers into one synthetic root node, the colouring pass, and the    *)
(* page start-up (stored options, debug fetch, opener message).            *)
(*                                                                         *)
(* Optional JavaScript properties are modelled by the presence of the      *)
(* record field: a node without `children` is a record without that field. *)
(* A container's node is a JavaScript object shared between the container  *)
(* and the synthetic root; the synthetic root therefore holds a reference  *)
(* [ref |-> i] to the node of the i-th container instead of a copy.        *)
(***************************************************************************)
EXTENDS Integers, Sequences, FiniteSets, TLC

VARIABLES
  groupInput,   \* createRootNodeForGroup: this.rootNodesByGroup of the call
  groupResult,  \* createRootNodeForGroup: the value returned (<<>> before the call)
  groupModes    \* renderViewModeOptions(rootNodes): the panel (<<>> before the call)

VARIABLES
  version,         \* which version of main.js the page runs
  loadedOptions,   \* the stored options the page was loaded with (<<>>: none)
  hasDebug,        \* the URL has the 'debug' parameter
  opener,          \* self.opener: "null", or a window that is "open" or "closed"
  pc,              \* position of main(): "loading", "fetching", "ready", "failed"
  windowOptions,   \* window.__TREEMAP_OPTIONS / window.__treemapOptions (<<>>: unset)
  optionsViewer,   \* the viewer that works on the object of the window's options
                   \* variable: index into viewers, 0 if none does
  windowInjected,  \* window.__injected
  headScripts,     \* the options of the script elements appended to document.head
  bodyError,       \* the text showError wrote to document.body ("": none)
  uncaughtError,   \* message of the last error no handler caught ("": none)
  fetchIssued,     \* fetch('debug.json') was called
  messageListeners,\* number of 'message' listeners registered on the window
  openerPosts,     \* number of {opened: true} messages posted to the opener
  messageEvent,    \* the last message event posted to the window (<<>>: none yet),
                   \* with dispatched: its listeners have run
  mouseAt,         \* the node element that got a mouseover and no mouseout since:
                   \* the element the pointer is over (<<>>: none)
  lastRender,      \* what rendered the treemap last: "init", a "resize" event or a
                   \* "show" by a click on the view mode ("none": not rendered)
  initCalls,       \* number of calls of init()
  lastInit,        \* options and outcome of the last call of init() (<<>>: none)
  viewers,         \* the TreemapViewer instances constructed, in order
  treemapViewer,   \* the global treemapViewer: index into viewers, 0 if unassigned
  windowListeners, \* event type -> viewers whose listener initListeners registered
  header,          \* text of .lh-header--url and .lh-header--size (<<>>: not written)
  viewModesPanel,  \* the view-mode elements of the modes panel
  elChildren       \* viewers whose root element is a child of the treemap element

groupVars == <<groupInput, groupResult, groupModes>>

envVars == <<version, loadedOptions, hasDebug, opener>>

mainVars == <<pc, fetchIssued, messageListeners, openerPosts>>

programVars ==
  <<windowOptions, optionsViewer, windowInjected, headScripts, bodyError,
    uncaughtError, initCalls, lastInit,
    viewers, treemapViewer, windowListeners, header, viewModesPanel, elChildren>>

pageVars == <<envVars, mainVars, messageEvent, mouseAt, lastRender, programVars>>

vars == <<groupVars, pageVars>>

----------------------------------------------------------------------------
(* Bounds of the model. *)

MaxContainers == 3

\* Number of entries of the palette COLOR_HUES.
NumHues == 2

\* Number of calls of init() a behaviour may contain.
MaxInits == 2

----------------------------------------------------------------------------
(* Data model: Node and RootNodeContainer. *)

Has(obj, field) == field \in DOMAIN obj

NoFields == [f \in {} |-> 0]

\* A Node: unusedBytes and children are optional.  ub and ch are given as
\* sequences of length 0 (property absent) or 1 (property present).
Node(name, resourceBytes, ub, ch) ==
  [name |-> name, resourceBytes |-> resourceBytes]
    @@ (IF ub = <<>> THEN NoFields ELSE [unusedBytes |-> ub[1]])
    @@ (IF ch = <<>> THEN NoFields ELSE [children |-> ch[1]])

RootNodeContainer(name, node) == [name |-> name, node |-> node]

\* The reference to the node object of the i-th container.
NodeRef(i) == [ref |-> i]

IsRef(child) == Has(child, "ref")

\* The object a child of the synthetic root stands for.
Deref(rootNodes, child) ==
  IF IsRef(child) THEN rootNodes[child.ref].node ELSE child

----------------------------------------------------------------------------
(* TreemapViewer.createRootNodeForGroup *)

\* Faulty variant: only nodes that have at least one child are wrapped.
GroupChildWrapNonEmpty(rootNodes, group, i) ==
  LET rootNode == rootNodes[i] IN
  IF group = "scripts" /\ Has(rootNode.node, "children")
       /\ Len(rootNode.node.children) > 0
    THEN [name |-> rootNode.name,
          children |-> <<NodeRef(i)>>,
          resourceBytes |-> rootNode.node.resourceBytes]
           @@ (IF Has(rootNode.node, "unusedBytes")
                 THEN [unusedBytes |-> rootNode.node.unusedBytes]
                 ELSE NoFields)
    ELSE NodeRef(i)

\* rootNodes.map(rootNode => ...): the wrapper, or the node itself.
GroupChild(rootNodes, group, i) ==
  LET rootNode == rootNodes[i] IN
  IF group = "scripts" /\ Has(rootNode.node, "children")
    THEN [name |-> rootNode.name,
          children |-> <<NodeRef(i)>>,
          resourceBytes |-> rootNode.node.resourceBytes]
           @@ (IF Has(rootNode.node, "unusedBytes")
                 THEN [unusedBytes |-> rootNode.node.unusedBytes]
                 ELSE NoFields)
    ELSE NodeRef(i)

\* Faulty variant: the accumulator is dropped, (acc, cur) => cur.resourceBytes.
RECURSIVE ReduceResourceBytesNoAcc(_, _, _, _)
ReduceResourceBytesNoAcc(rootNodes, children, i, acc) ==
  IF i > Len(children) THEN acc
  ELSE ReduceResourceBytesNoAcc(rootNodes, children, i + 1,
         Deref(rootNodes, children[i]).resourceBytes)

\* children.reduce((acc, cur) => cur.resourceBytes + acc, 0)
RECURSIVE ReduceResourceBytes(_, _, _, _)
ReduceResourceBytes(rootNodes, children, i, acc) ==
  IF i > Len(children) THEN acc
  ELSE ReduceResourceBytes(rootNodes, children, i + 1,
         Deref(rootNodes, children[i]).resourceBytes + acc)

\* Faulty variant: a child without unusedBytes counts with its resourceBytes,
\* (acc, cur) => (cur.unusedBytes || cur.resourceBytes) + acc.
RECURSIVE ReduceUnusedBytesDefaultsToResource(_, _, _, _)
ReduceUnusedBytesDefaultsToResource(rootNodes, children, i, acc) ==
  LET cur == Deref(rootNodes, children[i]) IN
  IF i > Len(children) THEN acc
  ELSE ReduceUnusedBytesDefaultsToResource(rootNodes, children, i + 1,
         (IF Has(cur, "unusedBytes") THEN cur.unusedBytes ELSE cur.resourceBytes)
           + acc)

\* children.reduce((acc, cur) => (cur.unusedBytes || 0) + acc, 0)
RECURSIVE ReduceUnusedBytes(_, _, _, _)
ReduceUnusedBytes(rootNodes, children, i, acc) ==
  LET cur == Deref(rootNodes, children[i]) IN
  IF i > Len(children) THEN acc
  ELSE ReduceUnusedBytes(rootNodes, children, i + 1,
         (IF Has(cur, "unusedBytes") THEN cur.unusedBytes ELSE 0) + acc)

createRootNodeForGroup(rootNodesByGroup, documentUrl, group) ==
  LET rootNodes == rootNodesByGroup[group]
      children == [i \in 1..Len(rootNodes) |-> GroupChild(rootNodes, group, i)]
  IN [name |-> documentUrl,
      resourceBytes |-> ReduceResourceBytes(rootNodes, children, 1, 0),
      unusedBytes |-> ReduceUnusedBytes(rootNodes, children, 1, 0),
      children |-> children]

----------------------------------------------------------------------------
(* JavaScript objects as records. *)

Set(obj, field, value) == (field :> value) @@ obj

Delete(obj, field) == [f \in DOMAIN obj \ {field} |-> obj[f]]

\* The container whose node a child of the synthetic root is or wraps.
ContainerOf(child) == IF IsRef(child) THEN child.ref ELSE child.children[1].ref

----------------------------------------------------------------------------
(* Util: stableHasher, COLOR_HUES, hsl, formatBytes.  util.js is not part *)
(* of the sources; these follow the specification (section 4.2).          *)

COLOR_HUES == [i \in 1..NumHues |-> 40 * i]

IndexOf(seq, x) ==
  IF \E i \in 1..Len(seq) : seq[i] = x
    THEN CHOOSE i \in 1..Len(seq) : seq[i] = x
    ELSE 0

\* Faulty variant: a key that was assigned before is assigned the next free entry again.
stableHasherForgetful(values, assigned, key) ==
  IF Len(assigned) < Len(values)
    THEN [value |-> <<values[Len(assigned) + 1]>>, assigned |-> Append(assigned, key)]
    ELSE [value |-> <<>>, assigned |-> assigned]

\* One call hasher(key) of the function returned by stableHasher(values);
\* assigned is the state of the hasher: the keys seen, in first-seen order.
\* The result is <<value>>, or <<>> for undefined.
stableHasher(values, assigned, key) ==
  LET i == IndexOf(assigned, key) IN
  IF i > 0
    THEN [value |-> <<values[i]>>, assigned |-> assigned]
    ELSE IF Len(assigned) < Len(values)
      THEN [value |-> <<values[Len(assigned) + 1]>>,
            assigned |-> Append(assigned, key)]
      ELSE [value |-> <<>>, assigned |-> assigned]

hsl(h, s, l) == <<"hsl", h, s, l>>

formatBytes(bytes) == <<"formatBytes", bytes>>

----------------------------------------------------------------------------
(* TreemapViewer.show: the walk that resets the nodes, and the sort. *)

\* delete node.dom; node.size = node.resourceBytes || 0;
ResetNode(obj) ==
  Set(Delete(obj, "dom"), "size",
      IF obj.resourceBytes # 0 THEN obj.resourceBytes ELSE 0)

RECURSIVE ResetTree(_)
ResetTree(node) ==
  LET n == ResetNode(node) IN
  IF Has(n, "children")
    THEN Set(n, "children", [i \in 1..Len(n.children) |-> ResetTree(n.children[i])])
    ELSE n

\* children.sort((a, b) => b.size - a.size), a stable sort.
SortedBySize(seq, sizes) ==
  LET n == Len(seq)
      rank(i) == Cardinality({ j \in 1..n :
                     sizes[j] > sizes[i] \/ (sizes[j] = sizes[i] /\ j < i) }) + 1
  IN [r \in 1..n |-> seq[CHOOSE i \in 1..n : rank(i) = r]]

\* webtreemap.sort(node)
RECURSIVE SortTree(_)
SortTree(node) ==
  IF ~Has(node, "children") THEN node
  ELSE LET sorted == SortedBySize(node.children,
                       [i \in 1..Len(node.children) |-> node.children[i].size])
       IN Set(node, "children", [i \in 1..Len(sorted) |-> SortTree(sorted[i])])

\* Util.dfs(node, fn): the nodes fn is called with, in order: the node, then
\* the nodes of its children's trees.
RECURSIVE dfs(_)
dfs(node) ==
  LET RECURSIVE OfAll(_, _)
      OfAll(nodes, n) == IF n = 0 THEN <<>> ELSE OfAll(nodes, n - 1) \o dfs(nodes[n])
  IN <<node>> \o (IF Has(node, "children")
                    THEN OfAll(node.children, Len(node.children)) ELSE <<>>)

\* Faulty variant: the nodes that have children are counted as well.
LeafBytesEveryNode(node) ==
  LET visited == dfs(node)
      RECURSIVE Bytes(_)
      Bytes(n) == IF n = 0 THEN 0 ELSE Bytes(n - 1) + visited[n].resourceBytes
  IN Bytes(Len(visited))

\* renderViewModeOptions: what the walk of one tree adds to bytes; the
\* callback returns at a node that has children.
RECURSIVE LeafBytesOfAll(_, _)
LeafBytes(node) ==
  LET visited == dfs(node)
      RECURSIVE Bytes(_)
      Bytes(n) ==
        IF n = 0 THEN 0
        ELSE Bytes(n - 1)
               + (IF Has(visited[n], "children") THEN 0 ELSE visited[n].resourceBytes)
  IN Bytes(Len(visited))

\* The loop over rootNodes.
LeafBytesOfAll(nodes, n) ==
  IF n = 0 THEN 0 ELSE LeafBytesOfAll(nodes, n - 1) + LeafBytes(nodes[n])

\* renderViewModeOptions(rootNodes): the content of the modes panel.
renderViewModeOptions(rootNodes) ==
  LET trees == [i \in 1..Len(rootNodes) |-> rootNodes[i].node]
  IN << [label |-> "All", size |-> formatBytes(LeafBytesOfAll(trees, Len(trees)))] >>

----------------------------------------------------------------------------
(* webtreemap: render and layout.  The library decides which nodes get an *)
(* element; the model lets it show the nodes down to a level chosen at    *)
(* each layout, the root (level 0) always being shown.                    *)

ShownLevels == {0, 1, 3}

NewDom == [backgroundColor |-> "", color |-> "", classList |-> {"webtreemap-node"}]

LayoutNode(obj, level, shown) ==
  IF level <= shown
    THEN (IF Has(obj, "dom") THEN obj ELSE Set(obj, "dom", NewDom))
    ELSE Delete(obj, "dom")

RECURSIVE LayoutTree(_, _, _)
LayoutTree(node, level, shown) ==
  LET n == LayoutNode(node, level, shown) IN
  IF Has(n, "children")
    THEN Set(n, "children",
           [i \in 1..Len(n.children) |-> LayoutTree(n.children[i], level + 1, shown)])
    ELSE n

\* The level of the node of container i below the synthetic root.
LevelOfContainer(root, i) ==
  LET j == CHOOSE j \in 1..Len(root.children) : ContainerOf(root.children[j]) = i
  IN IF IsRef(root.children[j]) THEN 1 ELSE 2

\* new webtreemap.TreeMap(root, ...).layout(root, el) on a viewer.
LayoutViewer(viewer, shown) ==
  LET root == viewer.currentRootNode
      rootNodes == viewer.rootNodesByGroup["scripts"]
  IN [viewer EXCEPT
        !.currentRootNode =
           Set(LayoutNode(root, 0, shown), "children",
               [j \in 1..Len(root.children) |->
                  IF IsRef(root.children[j]) THEN root.children[j]
                  ELSE LayoutNode(root.children[j], 1, shown)]),
        !.rootNodesByGroup =
           [scripts |->
              [i \in 1..Len(rootNodes) |->
                 [rootNodes[i] EXCEPT
                    !.node = LayoutTree(@, LevelOfContainer(root, i), shown)]]]]

----------------------------------------------------------------------------
(* TreemapViewer.updateColors *)

\* Faulty variant: the fallback colours are swapped.
NodeColorsDarkFallback(hue) ==
  IF hue # <<>>
    THEN [backgroundColor |-> hsl(hue[1], 60, 90), color |-> "black"]
    ELSE [backgroundColor |-> "black", color |-> "white"]

\* The colours of a node, from the hue of its key (<<>>: undefined).
NodeColors(hue) ==
  LET sat == 60
      lum == 90
  IN IF hue # <<>>
       THEN [backgroundColor |-> hsl(hue[1], sat, lum),
             color |-> IF lum > 50 THEN "black" ELSE "white"]
       ELSE [backgroundColor |-> "white", color |-> "black"]

\* Faulty variant: nodeToRootNodeMap is not looked at, every node is keyed
\* by its own name.
HueKeyOwnName(rootNode, node) == node.name

\* rootNode ? rootNode.name : node.name, rootNode being the container that
\* nodeToRootNodeMap has for the node (<<>>: none).
HueKey(rootNode, node) == IF rootNode # <<>> THEN rootNode.name ELSE node.name

\* The callback of the walk on one node; hues is the state of the colouring:
\* the state of the hasher this.getHue and the hue last given to each key.
ColorNode(obj, rootNode, hues) ==
  LET hueKey == HueKey(rootNode, obj)
      h == stableHasher(COLOR_HUES, hues.assigned, hueKey)
      colors == NodeColors(h.value)
  IN [node |-> IF Has(obj, "dom")
                 THEN Set(obj, "dom",
                        [obj.dom EXCEPT !.backgroundColor = colors.backgroundColor,
                                        !.color = colors.color])
                 ELSE obj,
      hues |-> [assigned |-> h.assigned,
                given |-> (hueKey :> h.value) @@ hues.given]]

\* The walk over a container's tree: the node, then its children in order.
RECURSIVE ColorTree(_, _, _)
RECURSIVE ColorChildren(_, _, _, _)
ColorTree(node, rootNode, hues) ==
  LET self == ColorNode(node, rootNode, hues) IN
  IF Has(node, "children")
    THEN LET rest == ColorChildren(node.children, 1, rootNode, self.hues)
         IN [node |-> Set(self.node, "children", rest.children), hues |-> rest.hues]
    ELSE self

ColorChildren(children, j, rootNode, hues) ==
  IF j > Len(children) THEN [children |-> children, hues |-> hues]
  ELSE LET c == ColorTree(children[j], rootNode, hues)
       IN ColorChildren([children EXCEPT ![j] = c.node], j + 1, rootNode, c.hues)

\* The walk over the children of the synthetic root, from the j-th on.
RECURSIVE ColorRootChildren(_, _)
ColorRootChildren(viewer, j) ==
  LET root == viewer.currentRootNode
      rootNodes == viewer.rootNodesByGroup["scripts"]
  IN IF j > Len(root.children) THEN viewer
     ELSE LET child == root.children[j]
              i == ContainerOf(child)
              w == IF IsRef(child) THEN [node |-> child, hues |-> viewer.hues]
                   ELSE ColorNode(child, <<>>, viewer.hues)
              t == ColorTree(rootNodes[i].node, rootNodes[i], w.hues)
          IN ColorRootChildren(
               [viewer EXCEPT
                  !.currentRootNode = Set(root, "children",
                                        [root.children EXCEPT ![j] = w.node]),
                  !.rootNodesByGroup = [scripts |-> [rootNodes EXCEPT ![i].node = t.node]],
                  !.hues = t.hues],
               j + 1)

updateColors(viewer) ==
  LET r == ColorNode(viewer.currentRootNode, <<>>, viewer.hues)
  IN ColorRootChildren(
       [viewer EXCEPT !.currentRootNode = r.node, !.hues = r.hues], 1)

----------------------------------------------------------------------------
(* The page: the state main.js works on, as one record. *)

Page ==
  [windowOptions |-> windowOptions, optionsViewer |-> optionsViewer,
   windowInjected |-> windowInjected,
   headScripts |-> headScripts, bodyError |-> bodyError,
   uncaughtError |-> uncaughtError,
   initCalls |-> initCalls, lastInit |-> lastInit,
   viewers |-> viewers, treemapViewer |-> treemapViewer,
   windowListeners |-> windowListeners, header |-> header,
   viewModesPanel |-> viewModesPanel, elChildren |-> elChildren]

\* The options object after a viewer has worked on it: the constructor takes
\* its treemapData list as it is, so what show() and webtreemap store on the
\* nodes (size, dom, the order of the children) is stored on the options.
WrittenOptions(options, viewer) ==
  [options EXCEPT !.lhr.details.treemapData = viewer.rootNodesByGroup["scripts"]]

\* The value of the window's options variable on the page p: where a viewer
\* works on that object, with what the viewer has written to it.
SharedOptions(p) ==
  IF p.optionsViewer = 0 THEN p.windowOptions
  ELSE WrittenOptions(p.windowOptions, p.viewers[p.optionsViewer])

\* JSON.parse(JSON.stringify(node)): an element has no enumerable property of
\* its own and is written as {}.
RECURSIVE JSONNode(_)
JSONNode(node) ==
  LET n == IF Has(node, "dom") THEN Set(node, "dom", NoFields) ELSE node IN
  IF Has(n, "children")
    THEN Set(n, "children", [c \in 1..Len(n.children) |-> JSONNode(n.children[c])])
    ELSE n

\* The options a script element with JSON.stringify(options) assigns.
JSONOptions(options) ==
  LET treemapData == options.lhr.details.treemapData IN
  [options EXCEPT !.lhr.details.treemapData =
     [i \in 1..Len(treemapData) |->
        [treemapData[i] EXCEPT !.node = JSONNode(treemapData[i].node)]]]

SetPage(p) ==
  /\ windowOptions' = SharedOptions(p)
  /\ optionsViewer' = p.optionsViewer
  /\ windowInjected' = p.windowInjected
  /\ headScripts' = p.headScripts
  /\ bodyError' = p.bodyError
  /\ uncaughtError' = p.uncaughtError
  /\ initCalls' = p.initCalls
  /\ lastInit' = p.lastInit
  /\ viewers' = p.viewers
  /\ treemapViewer' = p.treemapViewer
  /\ windowListeners' = p.windowListeners
  /\ header' = p.header
  /\ viewModesPanel' = p.viewModesPanel
  /\ elChildren' = p.elChildren

\* container.appendChild(dom): the element becomes the last child.
AppendChild(children, k) == Append(SelectSeq(children, LAMBDA x : x # k), k)

\* Util.find('.webtreemap-node').classList.add('webtreemap-node--root'): the
\* first node element of the document is the root element of the first child
\* of the treemap element.
MarkRoot(vs, children) ==
  [vs EXCEPT ![children[1]].currentRootNode.dom.classList =
                 @ \cup {"webtreemap-node--root"}]

\* Faulty variant: render keeps the TreeMap in a local variable and does not
\* set this.treemap.
renderNoTreemap(p, k, shown) ==
  LET laidOut == LayoutViewer(p.viewers[k], shown)
      v == laidOut
      children == AppendChild(p.elChildren, k)
      marked == MarkRoot([p.viewers EXCEPT ![k] = v], children)
  IN [p EXCEPT !.elChildren = children,
               !.viewers = [marked EXCEPT ![k] = updateColors(@)]]

\* TreemapViewer.render of the k-th viewer.
render(p, k, shown) ==
  LET laidOut == LayoutViewer(p.viewers[k], shown)
      v == IF version = "part_000" THEN Set(laidOut, "treemap", TRUE) ELSE laidOut
      children == AppendChild(p.elChildren, k)
      marked == MarkRoot([p.viewers EXCEPT ![k] = v], children)
  IN [p EXCEPT !.elChildren = children,
               !.viewers = [marked EXCEPT ![k] = updateColors(@)]]

\* TreemapViewer.resize of the k-th viewer (part_000).
resize(p, k, shown) ==
  IF ~Has(p.viewers[k], "treemap")
    THEN [p EXCEPT !.uncaughtError = "must call .render() first"]
    ELSE [p EXCEPT !.viewers[k] = updateColors(LayoutViewer(@, shown))]

\* Faulty variant: createRootNodeForGroup has stored each wrapper in its
\* container (rootNode.node = wrapper), so show() finds the containers of a
\* viewer shown before wrapped once more.
WrapInPlace(viewer) ==
  IF ~Has(viewer, "currentRootNode") THEN viewer
  ELSE [viewer EXCEPT
          !.rootNodesByGroup =
             [scripts |->
                [i \in 1..Len(@["scripts"]) |->
                   LET rootNode == @["scripts"][i] IN
                   IF Has(rootNode.node, "children")
                     THEN [rootNode EXCEPT
                             !.node = [name |-> rootNode.name,
                                       resourceBytes |-> rootNode.node.resourceBytes,
                                       children |-> <<rootNode.node>>]]
                     ELSE rootNode]]]

showWrapsInPlace(p, k, shown) ==
  LET v == WrapInPlace(p.viewers[k])
      group == "scripts"
      created == createRootNodeForGroup(v.rootNodesByGroup, v.documentUrl, group)
      rootNodes == v.rootNodesByGroup[group]
      walked == [j \in 1..Len(created.children) |->
                   IF IsRef(created.children[j]) THEN created.children[j]
                   ELSE ResetNode(created.children[j])]
      sizes == [j \in 1..Len(walked) |->
                  LET n == Deref(rootNodes, walked[j])
                  IN IF n.resourceBytes # 0 THEN n.resourceBytes ELSE 0]
      root == Set(ResetNode(created), "children", SortedBySize(walked, sizes))
      shownViewer ==
        Set([v EXCEPT
               !.rootNodesByGroup =
                  [scripts |-> [i \in 1..Len(rootNodes) |->
                     [rootNodes[i] EXCEPT !.node = SortTree(ResetTree(@))]]]],
            "currentRootNode", root)
  IN render([p EXCEPT !.viewModesPanel = renderViewModeOptions(rootNodes),
                      !.viewers[k] = shownViewer,
                      !.elChildren = <<>>],
            k, shown)

\* TreemapViewer.show of the k-th viewer.
show(p, k, shown) ==
  LET v == p.viewers[k]
      group == "scripts"
      created == createRootNodeForGroup(v.rootNodesByGroup, v.documentUrl, group)
      rootNodes == v.rootNodesByGroup[group]
      walked == [j \in 1..Len(created.children) |->
                   IF IsRef(created.children[j]) THEN created.children[j]
                   ELSE ResetNode(created.children[j])]
      sizes == [j \in 1..Len(walked) |->
                  LET n == Deref(rootNodes, walked[j])
                  IN IF n.resourceBytes # 0 THEN n.resourceBytes ELSE 0]
      root == Set(ResetNode(created), "children", SortedBySize(walked, sizes))
      shownViewer ==
        Set([v EXCEPT
               !.rootNodesByGroup =
                  [scripts |-> [i \in 1..Len(rootNodes) |->
                     [rootNodes[i] EXCEPT !.node = SortTree(ResetTree(@))]]]],
            "currentRootNode", root)
  IN render([p EXCEPT !.viewModesPanel = renderViewModeOptions(rootNodes),
                      !.viewers[k] = shownViewer,
                      !.elChildren = <<>>],
            k, shown)

ListenerTypes == {"resize", "click", "mouseover", "mouseout"}

\* Faulty variant: an empty treemapData list counts as missing.
ConstructorErrorOnEmpty(options) ==
  IF ~Has(options, "lhr") THEN "TypeError"
  ELSE IF ~Has(options.lhr, "details") \/ ~Has(options.lhr.details, "treemapData")
    THEN "missing script-treemap-data"
  ELSE IF Len(options.lhr.details.treemapData) = 0
    THEN "missing script-treemap-data"
    ELSE ""

\* The error the constructor throws on the options ("": none).
ConstructorError(options) ==
  IF ~Has(options, "lhr") THEN "TypeError"
  ELSE IF ~Has(options.lhr, "details") \/ ~Has(options.lhr.details, "treemapData")
    THEN "missing script-treemap-data"
    ELSE ""

\* new TreemapViewer(options, el), for options the constructor accepts.
TreemapViewer(p, options, shown) ==
  LET k == Len(p.viewers) + 1
      scriptRootNodes == options.lhr.details.treemapData
      \* "undefined" stands for the value undefined of an absent requestedUrl
      this == [rootNodesByGroup |-> [scripts |-> scriptRootNodes],
               documentUrl |-> IF Has(options.lhr, "requestedUrl")
                                 THEN options.lhr.requestedUrl ELSE "undefined",
               hues |-> [assigned |-> <<>>, given |-> <<>>]]
      \* createHeader: textContent = undefined leaves the text empty
      withHeader ==
        [p EXCEPT
           !.viewers = Append(@, this),
           !.header = [url |-> IF Has(options.lhr, "requestedUrl")
                                 THEN this.documentUrl ELSE "",
                       size |-> formatBytes(
                         createRootNodeForGroup(this.rootNodesByGroup,
                           this.documentUrl, "scripts").resourceBytes)]]
      shownPage == show(withHeader, k, shown)
  IN \* initListeners
     [shownPage EXCEPT
        !.windowListeners = [t \in ListenerTypes |-> Append(@[t], k)]]

\* injectOptions.  The script element runs when it is appended: the window's
\* options variable becomes the copy that the script assigns.
injectOptions(p, options) ==
  IF version = "main.js"
    THEN IF ~p.windowInjected THEN p
         ELSE LET copy == JSONOptions(SharedOptions(p)) IN
              [p EXCEPT !.headScripts = Append(@, copy),
                        !.windowOptions = copy,
                        !.optionsViewer = 0,
                        !.windowInjected = TRUE]
    ELSE IF p.windowOptions # <<>> THEN p
         ELSE LET copy == JSONOptions(WrittenOptions(options, p.viewers[p.treemapViewer]))
              IN [p EXCEPT !.headScripts = Append(@, copy),
                           !.windowOptions = copy]

\* window.__TREEMAP_OPTIONS = options (main.js): the variable holds the object
\* that the viewer just constructed works on.
StoreOptions(p, options) ==
  IF version = "main.js"
    THEN [p EXCEPT !.windowOptions = options, !.optionsViewer = p.treemapViewer]
    ELSE p

\* Faulty variant: init stores the options before it constructs the viewer.
initStoresFirst(p, options, shown) ==
  LET called == [p EXCEPT !.initCalls = @ + 1, !.windowOptions = options]
      error == IF p.bodyError # "" THEN "element not found"
               ELSE ConstructorError(options)
  IN IF error # ""
       THEN [called EXCEPT !.lastInit = [options |-> options, result |-> error],
                           !.uncaughtError = error]
       ELSE injectOptions(
              StoreOptions(
                [TreemapViewer(called, options, shown) EXCEPT
                   !.treemapViewer = Len(p.viewers) + 1,
                   !.lastInit = [options |-> options, result |-> "ok"]],
                options),
              options)

\* init(options).  A call that throws leaves the page as it was; the call and
\* the error are recorded in initCalls and lastInit.
init(p, options, shown) ==
  LET called == [p EXCEPT !.initCalls = @ + 1]
      error == IF p.bodyError # "" THEN "element not found"
               ELSE ConstructorError(options)
  IN IF error # ""
       THEN [called EXCEPT !.lastInit = [options |-> options, result |-> error],
                           !.uncaughtError = error]
       ELSE injectOptions(
              StoreOptions(
                [TreemapViewer(called, options, shown) EXCEPT
                   !.treemapViewer = Len(p.viewers) + 1,
                   !.lastInit = [options |-> options, result |-> "ok"]],
                options),
              options)

\* After init(window.__TREEMAP_OPTIONS), the call of main() on stored options
\* (scripts: the scripts of the head before the call): the viewer works on the
\* object of the window's variable, unless a script that init appended has
\* assigned a copy to the variable.
OwnOptions(q, scripts) ==
  IF q.lastInit.result # "ok" \/ q.headScripts # scripts THEN q
  ELSE [q EXCEPT !.optionsViewer = q.treemapViewer]

initStored(p, shown) == OwnOptions(init(p, p.windowOptions, shown), p.headScripts)

\* showError(message)
showError(p, message) == [p EXCEPT !.bodyError = message]

\* self.opener as a value: the opener window, or null.
OpenerWindow == IF opener = "null" THEN "null" ELSE "openerWindow"

\* !obj[field] is false: the string property is present and not empty.
Truthy(obj, field) == IF Has(obj, field) THEN obj[field] # "" ELSE FALSE

\* Faulty variant: the listener does not look at lhr.requestedUrl.
onMessageAnyUrl(p, e, shown) ==
  IF e.source # OpenerWindow THEN p
  ELSE IF ~Has(e.data, "lhr")
    THEN IF version = "main.js" THEN p ELSE showError(p, "Error: Invalid options")
  ELSE init(p, e.data, shown)

\* Faulty variant: the listener does not look at the sender.
onMessageAnySender(p, e, shown) ==
  IF ~Has(e.data, "lhr") \/ ~Truthy(e.data.lhr, "requestedUrl")
    THEN IF version = "main.js" THEN p ELSE showError(p, "Error: Invalid options")
    ELSE init(p, e.data, shown)

\* The 'message' listener that main registers.
onMessage(p, e, shown) ==
  IF e.source # OpenerWindow THEN p
  ELSE IF ~Has(e.data, "lhr")
    THEN IF version = "main.js" THEN p ELSE showError(p, "Error: Invalid options")
  ELSE IF ~Truthy(e.data.lhr, "requestedUrl")
    THEN IF version = "main.js" THEN p ELSE showError(p, "Error: Invalid options")
  ELSE init(p, e.data, shown)

\* Faulty variant: the 'debug' parameter is looked at before the stored options.
mainBranchDebugFirst(options, debug) ==
  IF debug THEN "debug"
  ELSE IF options # <<>> THEN "stored"
  ELSE "message"

\* The branch main() takes.
mainBranch(options, debug) ==
  IF options # <<>> THEN "stored"
  ELSE IF debug THEN "debug"
  ELSE "message"

----------------------------------------------------------------------------
(* The options a page may be given. *)

Url == "https://example.com/"

Options(treemapData) ==
  [lhr |-> [requestedUrl |-> Url, details |-> [treemapData |-> treemapData]]]

DataOne ==
  << RootNodeContainer("a.js", Node("a-root", 10, <<>>, <<>>)) >>

DataTwo ==
  << RootNodeContainer("a.js",
       Node("a-root", 20, <<8>>,
            << << Node("m1", 5, <<>>, <<>>), Node("m2", 15, <<8>>, <<>>) >> >>)),
     RootNodeContainer("b.js", Node("b-root", 30, <<>>, <<>>)) >>

DataThree ==
  << RootNodeContainer("a.js", Node("a-root", 10, <<>>, <<>>)),
     RootNodeContainer("b.js",
       Node("b-root", 20, <<>>, << << Node("m1", 20, <<>>, <<>>) >> >>)),
     RootNodeContainer("c.js", Node("c-root", 5, <<3>>, <<>>)) >>

\* An object without lhr.
OptionsNoLhr == [opened |-> TRUE]

\* lhr without a requested URL (the empty string).
OptionsNoUrl ==
  [lhr |-> [requestedUrl |-> "", details |-> [treemapData |-> DataOne]]]

\* lhr without a requestedUrl property.
OptionsNoUrlField == [lhr |-> [details |-> [treemapData |-> DataOne]]]

\* The 'script-treemap-data' audit has no details.
OptionsNoDetails == [lhr |-> [requestedUrl |-> Url]]

\* The details have no treemapData.
OptionsNoTreemapData == [lhr |-> [requestedUrl |-> Url, details |-> [type |-> "debugdata"]]]

GoodOptions == { Options(<<>>), Options(DataOne), Options(DataTwo), Options(DataThree) }

OptionSet ==
  GoodOptions \cup {OptionsNoLhr, OptionsNoUrl, OptionsNoDetails, OptionsNoTreemapData}

\* The options a saved page may have stored.
StoredOptionSet == { Options(DataTwo), OptionsNoTreemapData }

\* The messages posted to the window: e.source is the sender, e.data the data.
MessageSet ==
  { [source |-> "openerWindow", data |-> d] :
      d \in { Options(DataOne), Options(DataTwo), OptionsNoLhr, OptionsNoUrl,
               OptionsNoUrlField, OptionsNoTreemapData } }
  \cup { [source |-> "null", data |-> d] : d \in { Options(DataTwo), OptionsNoLhr } }
  \cup { [source |-> "otherWindow", data |-> d] : d \in { Options(DataTwo) } }

----------------------------------------------------------------------------
(* The page: initial states and events. *)

IdleGroup ==
  /\ groupInput = [scripts |-> <<>>]
  /\ groupResult = <<>>
  /\ groupModes = <<>>

NotLoaded ==
  /\ pc = "loading"
  /\ windowOptions = loadedOptions
  /\ optionsViewer = 0
  /\ headScripts = <<>>
  /\ bodyError = ""
  /\ uncaughtError = ""
  /\ fetchIssued = FALSE
  /\ messageListeners = 0
  /\ openerPosts = 0
  /\ messageEvent = <<>>
  /\ mouseAt = <<>>
  /\ lastRender = "none"
  /\ initCalls = 0
  /\ lastInit = <<>>
  /\ viewers = <<>>
  /\ treemapViewer = 0
  /\ windowListeners = [t \in ListenerTypes |-> <<>>]
  /\ header = <<>>
  /\ viewModesPanel = <<>>
  /\ elChildren = <<>>

Init ==
  /\ IdleGroup
  /\ version \in {"main.js", "part_000"}
  /\ loadedOptions \in {<<>>} \cup StoredOptionSet
  /\ windowInjected \in (IF loadedOptions = <<>> THEN {FALSE} ELSE BOOLEAN)
  /\ hasDebug \in BOOLEAN
  /\ opener \in {"null", "open", "closed"}
  /\ NotLoaded

\* The node elements of a tree, as the paths of their nodes from the root of
\* the tree: the indices of the children to follow.
RECURSIVE TreeElements(_)
TreeElements(node) ==
  (IF Has(node, "dom") THEN {<<>>} ELSE {})
  \cup (IF Has(node, "children")
          THEN UNION { { <<c>> \o path : path \in TreeElements(node.children[c]) } :
                       c \in 1..Len(node.children) }
          ELSE {})

\* The node elements ('.webtreemap-node') of a viewer: that of the current
\* root node, those of the wrappers (at: the index among the root's children)
\* and those of the nodes of the containers' trees (at: the index of the
\* container, then the path in its tree).
NodeElements(viewer) ==
  LET root == viewer.currentRootNode
      rootNodes == viewer.rootNodesByGroup["scripts"]
  IN (IF Has(root, "dom") THEN {[kind |-> "root", at |-> <<>>]} ELSE {})
     \cup { [kind |-> "wrapper", at |-> <<j>>] :
              j \in { j \in 1..Len(root.children) :
                        ~IsRef(root.children[j]) /\ Has(root.children[j], "dom") } }
     \cup UNION { { [kind |-> "node", at |-> <<i>> \o path] :
                      path \in TreeElements(rootNodes[i].node) } :
                  i \in 1..Len(rootNodes) }

RECURSIVE NodeAt(_, _)
NodeAt(node, path) ==
  IF path = <<>> THEN node ELSE NodeAt(node.children[Head(path)], Tail(path))

\* nodeEl.classList of a node element of a viewer.
ClassListOf(viewer, el) ==
  CASE el.kind = "root" -> viewer.currentRootNode.dom.classList
    [] el.kind = "wrapper" -> viewer.currentRootNode.children[el.at[1]].dom.classList
    [] el.kind = "node" ->
         NodeAt(viewer.rootNodesByGroup["scripts"][el.at[1]].node,
                Tail(el.at)).dom.classList

RECURSIVE WithClassList(_, _, _)
WithClassList(node, path, classList) ==
  IF path = <<>> THEN [node EXCEPT !.dom.classList = classList]
  ELSE [node EXCEPT !.children[Head(path)] = WithClassList(@, Tail(path), classList)]

\* The viewer after nodeEl.classList was changed to classList.
SetClassList(viewer, el, classList) ==
  CASE el.kind = "root" ->
         [viewer EXCEPT !.currentRootNode.dom.classList = classList]
    [] el.kind = "wrapper" ->
         [viewer EXCEPT !.currentRootNode.children[el.at[1]].dom.classList = classList]
    [] el.kind = "node" ->
         [viewer EXCEPT !.rootNodesByGroup["scripts"][el.at[1]].node =
                           WithClassList(@, Tail(el.at), classList)]

\* The listeners of one type run in the order they were registered.  shown is
\* the level the layout shows at the size of the window; target is, for a
\* mouse event, the element e.target.closest('.webtreemap-node'): a node
\* element el of a viewer.
RECURSIVE RunListeners(_, _, _, _, _)
RunListeners(p, type, i, shown, target) ==
  IF i > Len(p.windowListeners[type]) THEN p
  ELSE LET k == p.windowListeners[type][i]
           after ==
             CASE type = "resize" ->
                    IF version = "main.js" THEN render(p, k, shown)
                    ELSE resize(p, k, shown)
               [] type = "click" ->
                    [p EXCEPT !.viewers[k] = updateColors(@)]
               [] type = "mouseover" ->
                    [p EXCEPT !.viewers[target.viewer] =
                       SetClassList(@, target.el,
                         ClassListOf(@, target.el) \cup {"webtreemap-node--hover"})]
               [] type = "mouseout" ->
                    [p EXCEPT !.viewers[target.viewer] =
                       SetClassList(@, target.el,
                         ClassListOf(@, target.el) \ {"webtreemap-node--hover"})]
       IN RunListeners(after, type, i + 1, shown, target)

\* The node elements of the page p that are in the document: those of the
\* viewers whose root element is a child of the treemap element, unless
\* showError has replaced the content of the body.
ElementsInDocument(p) ==
  IF p.bodyError # "" THEN {}
  ELSE UNION { { [viewer |-> p.elChildren[n], el |-> el] :
                   el \in NodeElements(p.viewers[p.elChildren[n]]) } :
               n \in 1..Len(p.elChildren) }

\* The pointer after a step that may remove or replace elements: an element
\* that leaves the document gets no mouseout, and an element that webtreemap
\* creates under the pointer has got no mouseover.
PointerAfter(p) ==
  IF mouseAt = <<>> THEN <<>>
  ELSE IF mouseAt \notin ElementsInDocument(p) THEN <<>>
  ELSE IF "webtreemap-node--hover" \in ClassListOf(p.viewers[mouseAt.viewer], mouseAt.el)
    THEN mouseAt
    ELSE <<>>

\* self.opener.postMessage({opened: true}, '*'), if there is an open opener.
NotifyOpener == openerPosts' = IF opener = "open" THEN openerPosts + 1 ELSE openerPosts

\* The promise of main() is settled after init(): rejected if init threw.
AfterInit(p) ==
  /\ SetPage(p)
  /\ mouseAt' = PointerAfter(p)
  /\ lastRender' = IF p.lastInit.result = "ok" THEN "init" ELSE lastRender
  /\ IF p.lastInit.result = "ok"
       THEN pc' = "ready" /\ NotifyOpener
       ELSE pc' = "failed" /\ UNCHANGED openerPosts

\* DOMContentLoaded: main() up to its first suspension or its end.
Main ==
  /\ pc = "loading"
  /\ LET branch == mainBranch(windowOptions, hasDebug) IN
     \/ /\ branch = "stored"
        /\ \E shown \in ShownLevels : AfterInit(initStored(Page, shown))
        /\ UNCHANGED <<fetchIssued, messageListeners>>
     \/ /\ branch = "debug"
        /\ fetchIssued' = TRUE
        /\ pc' = "fetching"
        /\ UNCHANGED <<messageListeners, openerPosts, mouseAt, lastRender, programVars>>
     \/ /\ branch = "message"
        /\ messageListeners' = messageListeners + 1
        /\ pc' = "ready"
        /\ NotifyOpener
        /\ UNCHANGED <<fetchIssued, mouseAt, lastRender, programVars>>
  /\ UNCHANGED <<groupVars, envVars, messageEvent>>

\* fetch('debug.json') and response.json() resolve with some options.
FetchResolved ==
  /\ pc = "fetching"
  /\ \E options \in OptionSet, shown \in ShownLevels :
       AfterInit(init(Page, options, shown))
  /\ UNCHANGED <<groupVars, envVars, fetchIssued, messageListeners, messageEvent>>

\* fetch('debug.json') or response.json() rejects.
FetchRejected ==
  /\ pc = "fetching"
  /\ pc' = "failed"
  /\ uncaughtError' = "fetch failed"
  /\ UNCHANGED <<groupVars, envVars, fetchIssued, messageListeners, openerPosts,
                 messageEvent, mouseAt, lastRender, windowOptions, optionsViewer,
                 windowInjected, headScripts,
                 bodyError, initCalls, lastInit, viewers, treemapViewer,
                 windowListeners, header, viewModesPanel, elChildren>>

\* No message event waits for its dispatch.
NoneWaiting == IF messageEvent = <<>> THEN TRUE ELSE messageEvent.dispatched

\* Some window posts a message to this window, where main() has registered
\* the listener: without it a message event runs no code of the page.
PostMessage ==
  /\ messageListeners > 0
  /\ NoneWaiting
  /\ initCalls < MaxInits
  /\ \E m \in MessageSet :
       messageEvent' = [source |-> m.source, data |-> m.data, dispatched |-> FALSE]
  /\ UNCHANGED <<groupVars, envVars, mainVars, mouseAt, lastRender, programVars>>

\* The message event is dispatched: the listeners registered for it run.
Message ==
  /\ ~NoneWaiting
  /\ messageEvent' = [messageEvent EXCEPT !.dispatched = TRUE]
  /\ \E shown \in ShownLevels :
       LET p == onMessage(Page, messageEvent, shown) IN
       /\ SetPage(p)
       /\ mouseAt' = PointerAfter(p)
       /\ lastRender' = IF Len(p.viewers) > Len(viewers) THEN "init" ELSE lastRender
  /\ UNCHANGED <<groupVars, envVars, mainVars>>

\* The window is resized.
Resize ==
  /\ Len(windowListeners["resize"]) > 0
  /\ \E shown \in ShownLevels :
       LET p == RunListeners(Page, "resize", 1, shown, <<>>) IN
       /\ SetPage(p)
       /\ mouseAt' = PointerAfter(p)
  /\ lastRender' = "resize"
  /\ UNCHANGED <<groupVars, envVars, mainVars, messageEvent>>

\* The elements of the page are in the document until showError replaces them.
InDocument == bodyError = ""

\* A click on a node element of the treemap.
ClickNode ==
  /\ InDocument
  /\ elChildren # <<>>
  /\ SetPage(RunListeners(Page, "click", 1, 0, <<>>))
  /\ UNCHANGED <<groupVars, envVars, mainVars, messageEvent, mouseAt, lastRender>>

\* The pointer enters a node element of the document.  The browser sends the
\* mouseout of the element the pointer leaves before the mouseover of the one
\* it enters, so no element has a mouseover pending.
MouseOver ==
  /\ mouseAt = <<>>
  /\ \E target \in ElementsInDocument(Page) :
       /\ SetPage(RunListeners(Page, "mouseover", 1, 0, target))
       /\ mouseAt' = target
  /\ UNCHANGED <<groupVars, envVars, mainVars, messageEvent, lastRender>>

\* The pointer leaves the node element it is over: the one that got the
\* mouseover, or one that came under the pointer without an event.
MouseOut ==
  /\ \E target \in ElementsInDocument(Page) :
       /\ mouseAt \in {<<>>, target}
       /\ SetPage(RunListeners(Page, "mouseout", 1, 0, target))
  /\ mouseAt' = <<>>
  /\ UNCHANGED <<groupVars, envVars, mainVars, messageEvent, lastRender>>

\* A click on the view-mode element: treemapViewer.show().
ClickViewMode ==
  /\ InDocument
  /\ viewModesPanel # <<>>
  /\ \E shown \in ShownLevels :
       LET p == show(Page, treemapViewer, shown) IN
       /\ SetPage(p)
       /\ mouseAt' = PointerAfter(p)
  /\ lastRender' = "show"
  /\ UNCHANGED <<groupVars, envVars, mainVars, messageEvent>>

Next ==
  \/ Main
  \/ FetchResolved
  \/ FetchRejected
  \/ PostMessage
  \/ Message
  \/ Resize
  \/ ClickNode
  \/ MouseOver
  \/ MouseOut
  \/ ClickViewMode

Spec == Init /\ [][Next]_vars

----------------------------------------------------------------------------
(* The inputs of the aggregation: every list of at most MaxContainers      *)
(* containers over a small universe of nodes.                              *)

ByteValues == {5, 10, 20}

LeafNode == Node("m.js", 10, <<>>, <<>>)

GroupNodeSet ==
  { Node("bundle", rb, ub, ch) :
      rb \in ByteValues,
      ub \in {<<>>, <<3>>},
      ch \in {<<>>, << <<>> >>, << <<LeafNode>> >>} }

GroupContainerSet ==
  { RootNodeContainer("x.js", node) : node \in GroupNodeSet }

GroupUrl == "https://example.com/"

InitGroup ==
  /\ groupInput \in
       { [scripts |-> l] :
           l \in UNION { [1..n -> GroupContainerSet] : n \in 0..MaxContainers } }
  /\ groupResult = <<>>
  /\ groupModes = <<>>
  /\ version = "main.js"
  /\ loadedOptions = <<>>
  /\ windowInjected = FALSE
  /\ hasDebug = FALSE
  /\ opener = "null"
  /\ NotLoaded

CallCreateRootNodeForGroup ==
  /\ groupResult = <<>>
  /\ groupResult' = createRootNodeForGroup(groupInput, GroupUrl, "scripts")
  /\ UNCHANGED <<groupInput, groupModes, pageVars>>

\* show() goes on with renderViewModeOptions(this.rootNodesByGroup[group]).
CallRenderViewModeOptions ==
  /\ groupResult # <<>>
  /\ groupModes = <<>>
  /\ groupModes' = renderViewModeOptions(groupInput["scripts"])
  /\ UNCHANGED <<groupInput, groupResult, pageVars>>

NextGroup ==
  \/ CallCreateRootNodeForGroup
  \/ CallRenderViewModeOptions

SpecGroup == InitGroup /\ [][NextGroup]_vars

----------------------------------------------------------------------------
(* Properties of the aggregation (SpecGroup). *)

RECURSIVE SumOver(_, _)
SumOver(f, n) == IF n = 0 THEN 0 ELSE f[n] + SumOver(f, n - 1)

GroupRootNodes == groupInput["scripts"]

GroupCalled == groupResult # <<>>

NodeResourceBytes == [i \in 1..Len(GroupRootNodes) |-> GroupRootNodes[i].node.resourceBytes]

NodeUnusedBytes ==
  [i \in 1..Len(GroupRootNodes) |->
     IF Has(GroupRootNodes[i].node, "unusedBytes")
       THEN GroupRootNodes[i].node.unusedBytes ELSE 0]

\* C1: the resourceBytes of the synthetic node returned by
\* createRootNodeForGroup('scripts') is the sum of the resourceBytes of the
\* containers' nodes, wrapped or not.
C1_ResourceBytesIsSum ==
  GroupCalled =>
    groupResult.resourceBytes = SumOver(NodeResourceBytes, Len(GroupRootNodes))

\* The example of the specification: totals [10, 20, 5] give 35, with a
\* wrapped and an unwrapped node among them.
C1_Witness ==
  /\ GroupCalled
  /\ NodeResourceBytes = <<10, 20, 5>>
  /\ groupResult.resourceBytes = 35
  /\ IsRef(groupResult.children[1])
  /\ ~IsRef(groupResult.children[2])

\* The wrapper that createRootNodeForGroup builds for the i-th container.
IsWrapperOf(child, i) ==
  LET rootNode == GroupRootNodes[i] IN
  /\ ~IsRef(child)
  /\ child.name = rootNode.name
  /\ child.children = <<NodeRef(i)>>
  /\ child.resourceBytes = rootNode.node.resourceBytes
  /\ Has(child, "unusedBytes") = Has(rootNode.node, "unusedBytes")
  /\ Has(child, "unusedBytes") => child.unusedBytes = rootNode.node.unusedBytes

\* C2 (as amended): the children of the synthetic node have the length and
\* the order of the containers; the i-th child is the i-th container's node
\* itself when that node has no children property, and otherwise (also when
\* the children list is empty) a wrapper named after the container whose only
\* child is the container's node and whose resourceBytes and unusedBytes are
\* that node's.
C2_ChildrenFollowContainers ==
  GroupCalled =>
    /\ Len(groupResult.children) = Len(GroupRootNodes)
    /\ \A i \in 1..Len(GroupRootNodes) :
         IF Has(GroupRootNodes[i].node, "children")
           THEN IsWrapperOf(groupResult.children[i], i)
           ELSE groupResult.children[i] = NodeRef(i)

\* A node with an empty children list is wrapped, next to a node without
\* children that is not and a node with a child that is.
C2_Witness ==
  /\ GroupCalled
  /\ Len(GroupRootNodes) = 3
  /\ ~Has(GroupRootNodes[1].node, "children")
  /\ groupResult.children[1] = NodeRef(1)
  /\ Has(GroupRootNodes[2].node, "children")
  /\ GroupRootNodes[2].node.children = <<>>
  /\ IsWrapperOf(groupResult.children[2], 2)
  /\ Has(GroupRootNodes[3].node, "children")
  /\ Len(GroupRootNodes[3].node.children) = 1
  /\ IsWrapperOf(groupResult.children[3], 3)

NodeHasNoChildren(node) ==
  ~Has(node, "children") \/ Len(node.children) = 0

\* C2 as stated: the i-th child is the container's node itself whenever that
\* node has no children, an empty children list included.
C2_Original ==
  GroupCalled =>
    /\ Len(groupResult.children) = Len(GroupRootNodes)
    /\ \A i \in 1..Len(GroupRootNodes) :
         IF NodeHasNoChildren(GroupRootNodes[i].node)
           THEN groupResult.children[i] = NodeRef(i)
           ELSE IsWrapperOf(groupResult.children[i], i)

\* C3: the unusedBytes of the synthetic node is the sum of the unusedBytes of
\* the containers' nodes, a node without unusedBytes counting 0.
C3_UnusedBytesIsSum ==
  GroupCalled =>
    groupResult.unusedBytes = SumOver(NodeUnusedBytes, Len(GroupRootNodes))

\* Nodes with and without unusedBytes, wrapped and not, are summed.
C3_Witness ==
  /\ GroupCalled
  /\ Len(GroupRootNodes) = 3
  /\ ~Has(GroupRootNodes[1].node, "unusedBytes")
  /\ Has(GroupRootNodes[2].node, "unusedBytes")
  /\ Has(GroupRootNodes[3].node, "unusedBytes")
  /\ IsRef(groupResult.children[2])
  /\ ~IsRef(groupResult.children[3])
  /\ groupResult.unusedBytes = 6

----------------------------------------------------------------------------
(* Properties of the page (Spec). *)

Viewers == 1..Len(viewers)

RootNodesOf(k) == viewers[k].rootNodesByGroup["scripts"]

HasTreemapData(options, data) ==
  /\ Has(options, "lhr")
  /\ Has(options.lhr, "details")
  /\ Has(options.lhr.details, "treemapData")
  /\ options.lhr.details.treemapData = data

\* C4: an empty list of containers is aggregated without error into a
\* synthetic node with resourceBytes 0, unusedBytes 0 and no children, and
\* the constructor does not take an empty treemapData list for missing data.
C4_EmptyAggregation ==
  /\ \A k \in Viewers :
       RootNodesOf(k) = <<>> =>
         /\ viewers[k].currentRootNode.resourceBytes = 0
         /\ viewers[k].currentRootNode.unusedBytes = 0
         /\ viewers[k].currentRootNode.children = <<>>
  /\ (lastInit # <<>> /\ HasTreemapData(lastInit.options, <<>>)) =>
       /\ lastInit.result = "ok"
       /\ RootNodesOf(Len(viewers)) = <<>>

\* A viewer was constructed from an empty treemapData list.
C4_Witness ==
  /\ lastInit # <<>>
  /\ HasTreemapData(lastInit.options, <<>>)
  /\ Len(viewers) = 1
  /\ RootNodesOf(1) = <<>>
  /\ viewers[1].currentRootNode.children = <<>>
  /\ header = [url |-> Url, size |-> formatBytes(0)]
  /\ uncaughtError = ""

\* C5: within one viewer, a key that updateColors has given a hue (or none)
\* is given the same by every later updateColors.
C5_HueStable ==
  [][\A k \in Viewers :
       \A key \in DOMAIN viewers[k].hues.given :
         /\ k <= Len(viewers')
         /\ key \in DOMAIN viewers'[k].hues.given
         /\ viewers'[k].hues.given[key] = viewers[k].hues.given[key]]_vars

\* The first viewer was rendered again, by a resize after the second viewer
\* was constructed, and its keys have their hues.
C5_Witness ==
  /\ version = "main.js"
  /\ elChildren = <<1, 2>>
  /\ RootNodesOf(1) # RootNodesOf(2)
  /\ viewers[1].hues.given[Url] = <<COLOR_HUES[1]>>
  /\ \E key \in DOMAIN viewers[1].hues.given : viewers[1].hues.given[key] = <<>>

\* The keys of the walk of updateColors over a viewer, in the order of the
\* walk: the synthetic root's, then those of the containers of its children.
WalkKeys(k) ==
  LET root == viewers[k].currentRootNode
  IN <<root.name>> \o
     [j \in 1..Len(root.children) |-> RootNodesOf(k)[ContainerOf(root.children[j])].name]

\* The distinct elements of a sequence, in the order of their first occurrence.
RECURSIVE FirstSeen(_, _)
FirstSeen(keys, n) ==
  IF n = 0 THEN <<>>
  ELSE LET before == FirstSeen(keys, n - 1)
       IN IF \E i \in 1..(n - 1) : keys[i] = keys[n] THEN before
          ELSE Append(before, keys[n])

\* The elements of the nodes of a tree.
RECURSIVE TreeDoms(_)
TreeDoms(node) ==
  (IF Has(node, "dom") THEN {node.dom} ELSE {})
  \cup (IF Has(node, "children")
          THEN UNION { TreeDoms(node.children[i]) : i \in 1..Len(node.children) }
          ELSE {})

\* The elements updateColors styles with the hue of a key.
DomsOfKey(k, key) ==
  LET root == viewers[k].currentRootNode
  IN (IF root.name = key /\ Has(root, "dom") THEN {root.dom} ELSE {})
     \cup { root.children[j].dom : j \in { j \in 1..Len(root.children) :
              /\ ~IsRef(root.children[j])
              /\ root.children[j].name = key
              /\ Has(root.children[j], "dom") } }
     \cup UNION { TreeDoms(RootNodesOf(k)[i].node) :
                    i \in { i \in 1..Len(RootNodesOf(k)) : RootNodesOf(k)[i].name = key } }

\* C6: the keys are mapped to the palette in first-seen order; a key first
\* seen when the palette is used up has no hue, and its nodes are white with
\* black text; the nodes of the other keys have the colour of their hue.
C6_PaletteInFirstSeenOrder ==
  \A k \in Viewers :
    LET keys == FirstSeen(WalkKeys(k), Len(WalkKeys(k)))
        given == viewers[k].hues.given
    IN /\ viewers[k].hues.assigned =
            SubSeq(keys, 1, IF Len(keys) < NumHues THEN Len(keys) ELSE NumHues)
       /\ DOMAIN given = { keys[i] : i \in 1..Len(keys) }
       /\ \A i \in 1..Len(keys) :
            /\ given[keys[i]] = IF i <= NumHues THEN <<COLOR_HUES[i]>> ELSE <<>>
            /\ \A dom \in DomsOfKey(k, keys[i]) :
                 IF i <= NumHues
                   THEN /\ dom.backgroundColor = hsl(COLOR_HUES[i], 60, 90)
                        /\ dom.color = "black"
                   ELSE /\ dom.backgroundColor = "white"
                        /\ dom.color = "black"

\* The palette is used up: a container has no hue and its node is white,
\* while the root and another container have theirs.
C6_Witness ==
  \E k \in Viewers :
    /\ Len(viewers[k].hues.assigned) = NumHues
    /\ \E i \in 1..Len(RootNodesOf(k)) :
         /\ viewers[k].hues.given[RootNodesOf(k)[i].name] = <<>>
         /\ Has(RootNodesOf(k)[i].node, "dom")
         /\ RootNodesOf(k)[i].node.dom.backgroundColor = "white"
         /\ RootNodesOf(k)[i].node.dom.color = "black"
    /\ viewers[k].currentRootNode.dom.backgroundColor = hsl(COLOR_HUES[1], 60, 90)

MissingTreemapData(options) ==
  /\ Has(options, "lhr")
  /\ ~Has(options.lhr, "details") \/ ~Has(options.lhr.details, "treemapData")

\* C7: a call of init with options whose audit has no details, or whose
\* details have no treemapData, throws, and the viewer does not start: no
\* header, no rendering, no listener, no global viewer, options neither
\* stored nor injected.
C7_MissingDataDoesNotStart ==
  [][(initCalls' = initCalls + 1 /\ MissingTreemapData(lastInit'.options)) =>
       /\ lastInit'.result # "ok"
       /\ bodyError = "" => lastInit'.result = "missing script-treemap-data"
       /\ uncaughtError' = lastInit'.result
       /\ UNCHANGED <<viewers, treemapViewer, windowListeners, header,
                      viewModesPanel, elChildren, windowOptions, optionsViewer,
                      windowInjected,
                      headScripts, bodyError>>]_vars

\* init threw on a fetched debug.json without treemapData; nothing started.
C7_Witness ==
  /\ lastInit # <<>>
  /\ MissingTreemapData(lastInit.options)
  /\ lastInit.result = "missing script-treemap-data"
  /\ pc = "failed"
  /\ viewers = <<>>
  /\ treemapViewer = 0
  /\ header = <<>>
  /\ elChildren = <<>>
  /\ windowListeners = [t \in ListenerTypes |-> <<>>]
  /\ windowOptions = <<>>
  /\ headScripts = <<>>

\* C8 as stated: the viewer is initialized at most once per page load.
C8_InitializedAtMostOnce == Len(viewers) <= 1

\* C9, amended: the dispatch of a message event whose source is not identical
\* to self.opener changes nothing of the page, whatever its data; on a page
\* without an opener (self.opener is null) a message event whose source is
\* null passes the comparison, and with an lhr that has a requestedUrl it
\* calls init, though no opener window sent it.
C9_ForeignMessageIgnored ==
  [][(/\ ~NoneWaiting
      /\ messageEvent' = [messageEvent EXCEPT !.dispatched = TRUE])
     => /\ messageEvent.source # OpenerWindow => UNCHANGED programVars
        /\ (/\ opener = "null"
            /\ messageEvent.source = "null"
            /\ Has(messageEvent.data, "lhr"))
           => (Truthy(messageEvent.data.lhr, "requestedUrl")
                 => initCalls' = initCalls + 1)]_vars

\* C9 as stated: only a message sent by the opener window starts the viewer
\* or changes anything of the page; the dispatch of any other message event,
\* one on a page without an opener included, changes nothing.
C9_Original ==
  [][(/\ ~NoneWaiting
      /\ messageEvent' = [messageEvent EXCEPT !.dispatched = TRUE]
      /\ ~(opener # "null" /\ messageEvent.source = "openerWindow"))
     => UNCHANGED programVars]_vars

\* A message with valid options from a window that is not the opener was
\* dispatched to the registered listener, and no viewer was started.
C9_Witness ==
  /\ messageEvent # <<>>
  /\ messageEvent.dispatched
  /\ messageEvent.source = "otherWindow"
  /\ opener = "open"
  /\ messageEvent.data = Options(DataTwo)
  /\ messageListeners = 1
  /\ viewers = <<>>
  /\ initCalls = 0

\* C10: main() uses one input source, by priority: the stored options, else
\* debug.json if the URL has 'debug', else the message listener.
C10_OneInputSource ==
  IF pc = "loading"
    THEN ~fetchIssued /\ messageListeners = 0 /\ initCalls = 0
    ELSE IF loadedOptions # <<>>
      THEN /\ ~fetchIssued
           /\ messageListeners = 0
           /\ initCalls = 1
           /\ lastInit.options = loadedOptions
      ELSE IF hasDebug
        THEN /\ fetchIssued
             /\ messageListeners = 0
             /\ initCalls <= 1
        ELSE /\ ~fetchIssued
             /\ messageListeners = 1

\* Stored options win over the 'debug' parameter.
C10_Witness ==
  /\ loadedOptions # <<>>
  /\ hasDebug
  /\ pc = "ready"
  /\ Len(viewers) = 1
  /\ lastInit.options = loadedOptions
  /\ ~fetchIssued
  /\ messageListeners = 0

\* A node is a node of the options, but for the order of the children, which
\* show() sorts, and the size and the element stored on it.
RECURSIVE SameNode(_, _)
SameNode(node, original) ==
  /\ node.name = original.name
  /\ node.resourceBytes = original.resourceBytes
  /\ Has(node, "unusedBytes") = Has(original, "unusedBytes")
  /\ Has(node, "unusedBytes") => node.unusedBytes = original.unusedBytes
  /\ Has(node, "children") = Has(original, "children")
  /\ Has(node, "children") =>
       /\ Len(node.children) = Len(original.children)
       /\ \A c \in 1..Len(node.children) :
            \E d \in 1..Len(original.children) :
              SameNode(node.children[c], original.children[d])

\* The options that a script assigns are the options given to init, but for
\* what the viewer has stored on the nodes before they were written.
AssignsOptions(script, options) ==
  LET written == script.lhr.details.treemapData
      given == options.lhr.details.treemapData
  IN /\ [script EXCEPT !.lhr.details.treemapData = <<>>] =
          [options EXCEPT !.lhr.details.treemapData = <<>>]
     /\ Len(written) = Len(given)
     /\ \A i \in 1..Len(given) :
          /\ written[i].name = given[i].name
          /\ SameNode(written[i].node, given[i].node)

\* The last call of init returned without an error.
InitSucceeded == IF lastInit = <<>> THEN FALSE ELSE lastInit.result = "ok"

\* The options that the script elements appended to the head assign.
InjectedOptions == { headScripts[i] : i \in 1..Len(headScripts) }

\* C11 as stated: after init(options) succeeded on a page that did not start
\* from stored options, a script element that assigns those options to the
\* stored-options variable of the window is in the document head.
C11_OptionsInjected ==
  (loadedOptions = <<>> /\ InitSucceeded) =>
    \E script \in InjectedOptions : AssignsOptions(script, lastInit.options)

\* The elements of the rendered nodes of the i-th container of viewer k: those
\* of the nodes of its tree and that of the wrapper node created for it.
ContainerDoms(k, i) ==
  LET root == viewers[k].currentRootNode
  IN TreeDoms(RootNodesOf(k)[i].node)
     \cup { root.children[j].dom : j \in { j \in 1..Len(root.children) :
              /\ ~IsRef(root.children[j])
              /\ ContainerOf(root.children[j]) = i
              /\ Has(root.children[j], "dom") } }

\* C12: in every viewer, all rendered nodes of one container (the nodes of
\* its tree and its wrapper node) have the same background colour, the one of
\* the hue given to the container's name.
C12_ContainerHasOneColour ==
  \A k \in Viewers :
    \A i \in 1..Len(RootNodesOf(k)) :
      LET name == RootNodesOf(k)[i].name
          given == viewers[k].hues.given
      IN \A dom \in ContainerDoms(k, i) :
           /\ name \in DOMAIN given
           /\ dom.backgroundColor = NodeColors(given[name]).backgroundColor

\* A wrapped container is rendered down to the children of its node: the
\* wrapper, the node and the children have the colour of one hue, which is
\* not the colour of the synthetic root.
C12_Witness ==
  \E k \in Viewers :
    \E i \in 1..Len(RootNodesOf(k)) :
      LET node == RootNodesOf(k)[i].node
          root == viewers[k].currentRootNode
      IN /\ Has(node, "children")
         /\ Has(node, "dom")
         /\ \A c \in 1..Len(node.children) : Has(node.children[c], "dom")
         /\ \E j \in 1..Len(root.children) :
              /\ ~IsRef(root.children[j])
              /\ ContainerOf(root.children[j]) = i
              /\ Has(root.children[j], "dom")
              /\ root.children[j].dom.backgroundColor = node.dom.backgroundColor
         /\ node.children[1].dom.backgroundColor = node.dom.backgroundColor
         /\ viewers[k].hues.given[RootNodesOf(k)[i].name] # <<>>
         /\ node.dom.backgroundColor # root.dom.backgroundColor

\* The data of a message has no lhr, or its lhr no requestedUrl or an empty one.
InvalidOptions(data) ==
  IF Has(data, "lhr") THEN ~Truthy(data.lhr, "requestedUrl") ELSE TRUE

\* C13: the dispatch of a message from the opener whose data has no lhr, or
\* whose lhr has no or an empty requestedUrl, constructs no viewer, calls no
\* init and stores and injects no options; main.js leaves the page as it is,
\* the later version shows 'Error: Invalid options' if the listener is there.
C13_InvalidMessageNeverInits ==
  [][(/\ ~NoneWaiting
      /\ messageEvent' = [messageEvent EXCEPT !.dispatched = TRUE]
      /\ messageEvent.source = OpenerWindow
      /\ InvalidOptions(messageEvent.data))
     => /\ UNCHANGED <<viewers, treemapViewer, initCalls, lastInit, windowOptions,
                       optionsViewer, windowInjected, headScripts, windowListeners, header,
                       viewModesPanel, elChildren, uncaughtError>>
        /\ bodyError' = IF version = "part_000" /\ messageListeners > 0
                          THEN "Error: Invalid options" ELSE bodyError]_vars

\* The opener's message with an lhr without requestedUrl was dispatched to the
\* listener of the later version: the error is shown and nothing was started.
C13_Witness ==
  /\ version = "part_000"
  /\ messageEvent # <<>>
  /\ messageEvent.dispatched
  /\ messageEvent.source = "openerWindow"
  /\ opener = "open"
  /\ messageEvent.data = OptionsNoUrlField
  /\ messageListeners = 1
  /\ bodyError = "Error: Invalid options"
  /\ initCalls = 0
  /\ viewers = <<>>
  /\ windowOptions = <<>>
  /\ headScripts = <<>>

----------------------------------------------------------------------------
(* Properties of the view-mode total (SpecGroup). *)

\* The nodes of a tree without a children property, in the order of the walk.
RECURSIVE Leaves(_)
Leaves(node) ==
  LET RECURSIVE Concat(_, _)
      Concat(nodes, n) ==
        IF n = 0 THEN <<>> ELSE Concat(nodes, n - 1) \o Leaves(nodes[n])
  IN IF Has(node, "children") THEN Concat(node.children, Len(node.children))
     ELSE <<node>>

\* The resourceBytes of the leaves of the i-th container's tree.
LeafResourceBytes(i) ==
  LET leaves == Leaves(GroupRootNodes[i].node)
  IN SumOver([l \in 1..Len(leaves) |-> leaves[l].resourceBytes], Len(leaves))

LeafTotal ==
  SumOver([i \in 1..Len(GroupRootNodes) |-> LeafResourceBytes(i)], Len(GroupRootNodes))

\* The resourceBytes of every node with children is at least the sum of its
\* children's.
RECURSIVE ParentCoversChildren(_)
ParentCoversChildren(node) ==
  IF Has(node, "children")
    THEN /\ node.resourceBytes >=
              SumOver([c \in 1..Len(node.children) |-> node.children[c].resourceBytes],
                      Len(node.children))
         /\ \A c \in 1..Len(node.children) : ParentCoversChildren(node.children[c])
    ELSE TRUE

ModesCalled == groupModes # <<>>

\* C14: the panel that renderViewModeOptions writes has the one mode 'All'
\* with the sum of resourceBytes over the nodes without a children property
\* of all containers' trees; if every parent's resourceBytes is at least the
\* sum of its children's, that total is at most the header total, the
\* resourceBytes of the synthetic root.
C14_AllModeIsLeafBytes ==
  ModesCalled =>
    /\ groupModes = << [label |-> "All", size |-> formatBytes(LeafTotal)] >>
    /\ (\A i \in 1..Len(GroupRootNodes) : ParentCoversChildren(GroupRootNodes[i].node))
         => LeafTotal <= groupResult.resourceBytes

\* A parent larger than its child, a node with an empty children list that
\* counts for nothing, and a leaf: the total is below the header total.
C14_Witness ==
  /\ ModesCalled
  /\ Len(GroupRootNodes) = 3
  /\ GroupRootNodes[1].node.resourceBytes = 20
  /\ Has(GroupRootNodes[1].node, "children")
  /\ GroupRootNodes[1].node.children = <<LeafNode>>
  /\ Has(GroupRootNodes[2].node, "children")
  /\ GroupRootNodes[2].node.children = <<>>
  /\ ~Has(GroupRootNodes[3].node, "children")
  /\ GroupRootNodes[3].node.resourceBytes = 5
  /\ groupModes[1].size = formatBytes(15)
  /\ groupResult.resourceBytes > 15

----------------------------------------------------------------------------
(* Properties of show() (Spec). *)

\* A tree without the elements that webtreemap attaches to its nodes.
RECURSIVE WithoutDom(_)
WithoutDom(node) ==
  LET n == Delete(node, "dom") IN
  IF IsRef(n) \/ ~Has(n, "children") THEN n
  ELSE Set(n, "children", [c \in 1..Len(n.children) |-> WithoutDom(n.children[c])])

\* The data of a viewer: its current root node and its containers.
DataOf(viewer) ==
  [currentRootNode |-> WithoutDom(viewer.currentRootNode),
   rootNodes |-> [i \in 1..Len(viewer.rootNodesByGroup["scripts"]) |->
                    [viewer.rootNodesByGroup["scripts"][i] EXCEPT !.node = WithoutDom(@)]]]

\* The children of the current root node stand one for one for the
\* containers: the container's node itself, or a wrapper named after the
\* container whose only child is the container's node.
OneWrapperPerContainer(viewer) ==
  LET root == viewer.currentRootNode
      rootNodes == viewer.rootNodesByGroup["scripts"]
  IN /\ root.name = viewer.documentUrl
     /\ Len(root.children) = Len(rootNodes)
     /\ \A j \in 1..Len(root.children) :
          \/ IsRef(root.children[j])
          \/ /\ root.children[j].children = <<NodeRef(ContainerOf(root.children[j]))>>
             /\ root.children[j].name = rootNodes[ContainerOf(root.children[j])].name
     /\ \A i \in 1..Len(rootNodes) :
          Cardinality({ j \in 1..Len(root.children) :
                          ContainerOf(root.children[j]) = i }) = 1

ContainersKept ==
  InitSucceeded =>
    LET rootNodes == RootNodesOf(Len(viewers))
        original == lastInit.options.lhr.details.treemapData
    IN /\ Len(rootNodes) = Len(original)
       /\ \A i \in 1..Len(rootNodes) :
            /\ rootNodes[i].name = original[i].name
            /\ SameNode(rootNodes[i].node, original[i].node)

\* C15: no step that touches a viewer after its construction, a later show()
\* included, changes the name, the resourceBytes, the unusedBytes or the shape of its
\* current root node, or its containers and their nodes; every wrapper has
\* one child, the container's node, and the containers hold the nodes of the
\* options: wrappers neither nest nor accumulate.
C15_ShowIsIdempotent ==
  [][(viewers' # viewers \/ lastInit' # lastInit) =>
       /\ \A k \in Viewers :
            /\ k <= Len(viewers')
            /\ viewers'[k] # viewers[k] => DataOf(viewers'[k]) = DataOf(viewers[k])
       /\ \A k \in 1..Len(viewers') : OneWrapperPerContainer(viewers'[k])
       /\ ContainersKept']_vars

\* show() was called again, by a click on the view mode, on a viewer with a
\* wrapped container.
C15_Witness ==
  \E k \in Viewers :
    /\ lastRender = "show"
    /\ k = treemapViewer
    /\ \E j \in 1..Len(viewers[k].currentRootNode.children) :
         LET child == viewers[k].currentRootNode.children[j] IN
         /\ ~IsRef(child)
         /\ child.children = <<NodeRef(ContainerOf(child))>>
         /\ Len(RootNodesOf(k)[ContainerOf(child)].node.children) = 2
         /\ RootNodesOf(k)[ContainerOf(child)].node.name = "a-root"

----------------------------------------------------------------------------
(* Properties of resize() (Spec). *)

\* The viewers whose resize listener is registered on the window.
ResizeListeners ==
  { windowListeners["resize"][i] : i \in 1..Len(windowListeners["resize"]) }

\* C16: in the version with resize(), this.treemap is set on every viewer
\* whose resize listener is registered, and no resize event has thrown
\* 'must call .render() first'.
C16_ResizeAfterRender ==
  version = "part_000" =>
    /\ \A k \in ResizeListeners : k \in Viewers /\ Has(viewers[k], "treemap")
    /\ uncaughtError # "must call .render() first"

\* A resize event has run resize() on the two viewers of a page, without an
\* error.
C16_Witness ==
  /\ version = "part_000"
  /\ lastRender = "resize"
  /\ ResizeListeners = {1, 2}
  /\ \A k \in Viewers : Has(viewers[k], "treemap")
  /\ uncaughtError = ""

====
